---- MODULE Spec2Model ----
(***************************************************************************)
(* Model of open/bosminer/bosminer-am1-s9/src/config.rs: loading of the    *)
(* S9 backend configuration (Backend::parse), per-chain resolution         *)
(* (Backend::resolve_chain_config), monitor resolution                     *)
(* (Backend::resolve_monitor_config), midstate_count and clients.          *)
(*                                                                         *)
(* Representation                                                          *)
(*   Option<T>         [tag |-> "None"] or [tag |-> "Some", v |-> x]       *)
(*   String keys       sequences of one-character strings, <<"1","0">>     *)
(*   f32 frequency     integer MHz                                         *)
(*   f32 voltage       integer tenths of a volt (8.8 V is 88)              *)
(*   f32 temperatures  integer degrees                                     *)
(*   HashMap           function whose DOMAIN is the key set; iteration     *)
(*                     order is unspecified, every order is explored       *)
(***************************************************************************)
EXTENDS Integers, Sequences, FiniteSets, TLC

VARIABLES file, pc, ret, backend, chain_call, monitor_call, clients_call

vars == <<file, pc, ret, backend, chain_call, monitor_call, clients_call>>

(***************************************************************************)
(* Bounds of the explored input space                                      *)
(***************************************************************************)
MaxKeys == 2
MaxPools == 2
MaxIdx == 10
MaxClientsCalls == 2

(***************************************************************************)
(* Program constants                                                       *)
(***************************************************************************)
FORMAT_VERSION == "beta"
FORMAT_MODEL == "Antminer S9"
ASIC_BOOST_MIDSTATE_COUNT == 4
DEFAULT_ASIC_BOOST == TRUE
DEFAULT_FREQUENCY == 650
DEFAULT_VOLTAGE == 88
DEFAULT_TEMP_CONTROL_MODE == "Auto"
DEFAULT_TARGET_TEMP == 75
DEFAULT_HOT_TEMP == 95
DEFAULT_DANGEROUS_TEMP == 105
DEFAULT_FAN_SPEED == 100
DEFAULT_MIN_FANS == 1
HASH_CHAIN_INDEX_MIN == 1
HASH_CHAIN_INDEX_MAX == 9

(***************************************************************************)
(* Option<T>                                                               *)
(***************************************************************************)
None == [tag |-> "None"]

Some(x) == [tag |-> "Some", v |-> x]

IsSome(o) == o.tag = "Some"

\* Option::and_then with a closure that reads one optional field, |v| v.f
and_then_field(o, f) == IF IsSome(o) THEN o.v[f] ELSE None

\* Option::unwrap_or
unwrap_or(o, d) == IF IsSome(o) THEN o.v ELSE d

(***************************************************************************)
(* support::OptionDefault: a resolved value with its provenance            *)
(***************************************************************************)
OptionDefault_Some(x) == [kind |-> "Some", v |-> x]

OptionDefault_Default(x) == [kind |-> "Default", v |-> x]

OptionDefault_new(o, d) ==
    IF IsSome(o) THEN OptionDefault_Some(o.v) ELSE OptionDefault_Default(d)

\* Deref: the resolved value, always present
Deref(od) == od.v

\* "was this value explicitly supplied"
is_some(od) == od.kind = "Some"

\* explicitly supplied and equal to x
eq_some(od, x) == od.kind = "Some" /\ od.v = x

(***************************************************************************)
(* Decimal strings: usize::to_string and str::parse::<usize>               *)
(***************************************************************************)
DigitChar == <<"0", "1", "2", "3", "4", "5", "6", "7", "8", "9">>

Digits == {DigitChar[i] : i \in 1..10}

DigitVal(c) == (CHOOSE i \in 1..10 : DigitChar[i] = c) - 1

RECURSIVE to_string(_)
to_string(n) ==
    IF n < 10 THEN <<DigitChar[n + 1]>>
    ELSE to_string(n \div 10) \o <<DigitChar[(n % 10) + 1]>>

RECURSIVE DecValue(_)
DecValue(s) ==
    IF s = <<>> THEN 0
    ELSE 10 * DecValue(SubSeq(s, 1, Len(s) - 1)) + DigitVal(s[Len(s)])

\* str::parse::<usize>: an optional leading '+', then one or more decimal
\* digits (leading zeros allowed); anything else is an error.  Keys here are
\* at most three characters long, so the overflow error cannot occur.
parse_usize(s) ==
    LET body == IF Len(s) > 0 /\ s[1] = "+" THEN Tail(s) ELSE s
    IN  IF Len(body) = 0 \/ \E i \in 1..Len(body) : body[i] \notin Digits
        THEN None
        ELSE Some(DecValue(body))

(***************************************************************************)
(* bosminer_config::client::parse: the pool URL parser (external to this   *)
(* file).  It either yields a client descriptor or rejects the URL.        *)
(***************************************************************************)
UrlA == "stratum+tcp://a.example:3333"

UrlB == "stratum+tcp://b.example:3334"

UrlBad == "not a url"

client_parse(url, user) ==
    IF url = UrlA
    THEN Some([protocol |-> "stratum+tcp", addr |-> "a.example:3333", user |-> user])
    ELSE IF url = UrlB
    THEN Some([protocol |-> "stratum+tcp", addr |-> "b.example:3334", user |-> user])
    ELSE None

(***************************************************************************)
(* hal::BackendConfig::midstate_count                                      *)
(***************************************************************************)
\* variant: boost taken as disabled when the flag is absent
midstate_count_DefaultOff(self) ==
    IF unwrap_or(and_then_field(self.hash_chain_global, "asic_boost"), FALSE)
    THEN ASIC_BOOST_MIDSTATE_COUNT
    ELSE 1

midstate_count(self) ==
    IF unwrap_or(and_then_field(self.hash_chain_global, "asic_boost"),
                 DEFAULT_ASIC_BOOST)
    THEN ASIC_BOOST_MIDSTATE_COUNT
    ELSE 1

(***************************************************************************)
(* Backend::resolve_chain_config                                           *)
(***************************************************************************)
\* HashMap::get
map_get(m, k) == IF k \in DOMAIN m THEN Some(m[k]) ELSE None

\* Option::and_then with the closure |m| m.get(&k)
and_then_get(o, k) == IF IsSome(o) THEN map_get(o.v, k) ELSE None

\* variant: the global override is applied over the per-chain entry
chain_locals_GlobalWins(self, hash_chain_idx) ==
    LET overridable == and_then_field(self.hash_chain_global, "overridable")
        hash_chain == and_then_get(self.hash_chains, to_string(hash_chain_idx))
        frequency0 == OptionDefault_new(and_then_field(hash_chain, "frequency"),
                                        DEFAULT_FREQUENCY)
        voltage0 == OptionDefault_new(and_then_field(hash_chain, "voltage"),
                                      DEFAULT_VOLTAGE)
    IN  [frequency |-> IF IsSome(and_then_field(overridable, "frequency"))
                       THEN OptionDefault_Some(overridable.v.frequency.v)
                       ELSE frequency0,
         voltage |-> IF IsSome(and_then_field(overridable, "voltage"))
                     THEN OptionDefault_Some(overridable.v.voltage.v)
                     ELSE voltage0]

\* The locals `frequency` and `voltage` after the per-chain override has
\* been applied, i.e. the values that enter the unit conversions.
chain_locals(self, hash_chain_idx) ==
    LET overridable == and_then_field(self.hash_chain_global, "overridable")
        frequency0 == OptionDefault_new(and_then_field(overridable, "frequency"),
                                        DEFAULT_FREQUENCY)
        voltage0 == OptionDefault_new(and_then_field(overridable, "voltage"),
                                      DEFAULT_VOLTAGE)
        hash_chain == and_then_get(self.hash_chains, to_string(hash_chain_idx))
    IN  IF IsSome(hash_chain)
        THEN [frequency |-> IF IsSome(hash_chain.v.frequency)
                            THEN OptionDefault_Some(hash_chain.v.frequency.v)
                            ELSE frequency0,
              voltage |-> IF IsSome(hash_chain.v.voltage)
                          THEN OptionDefault_Some(hash_chain.v.voltage.v)
                          ELSE voltage0]
        ELSE [frequency |-> frequency0, voltage |-> voltage0]

\* (f32 * 1_000_000.0) as usize: a float-to-integer cast saturates, so a
\* negative frequency becomes 0.
mhz_to_hz(f) == IF f < 0 THEN 0 ELSE f * 1000000

\* The returned ResolvedChainConfig.  FrequencySettings::from_frequency and
\* power::Voltage::from_volts are constructors of other modules; the value
\* handed to each is recorded.
ResolvedChainConfig(self, hash_chain_idx) ==
    LET l == chain_locals(self, hash_chain_idx)
    IN  [midstate_count |-> midstate_count(self),
         frequency |-> mhz_to_hz(Deref(l.frequency)),
         voltage |-> Deref(l.voltage)]

(***************************************************************************)
(* Backend::resolve_monitor_config                                         *)
(***************************************************************************)
\* fan::Speed::new (external): wraps the percentage
fan_Speed_new(x) == [speed |-> x]

Warning(field, shown) == [field |-> field, shown |-> shown]

monitor_locals(self) ==
    [mode |-> OptionDefault_new(and_then_field(self.temp_control, "mode"),
                                DEFAULT_TEMP_CONTROL_MODE),
     target_temp |-> OptionDefault_new(and_then_field(self.temp_control, "target_temp"),
                                       DEFAULT_TARGET_TEMP),
     hot_temp |-> OptionDefault_new(and_then_field(self.temp_control, "hot_temp"),
                                    DEFAULT_HOT_TEMP),
     dangerous_temp |-> OptionDefault_new(and_then_field(self.temp_control, "dangerous_temp"),
                                          DEFAULT_DANGEROUS_TEMP),
     fan_speed |-> OptionDefault_new(and_then_field(self.fan_control, "speed"),
                                     DEFAULT_FAN_SPEED),
     min_fans |-> OptionDefault_new(and_then_field(self.fan_control, "min_fans"),
                                    DEFAULT_MIN_FANS)]

\* variant: only Auto yields a thermal configuration
temp_config_of_AutoOnly(l) ==
    IF Deref(l.mode) = "Auto"
    THEN Some([dangerous_temp |-> Deref(l.dangerous_temp),
               hot_temp |-> Deref(l.hot_temp)])
    ELSE None

\* variant: a supplied hot_temp keeps the thermal configuration under Disable
temp_config_of_KeepsSupplied(l) ==
    IF Deref(l.mode) \in {"Auto", "Manual"} \/ is_some(l.hot_temp)
    THEN Some([dangerous_temp |-> Deref(l.dangerous_temp),
               hot_temp |-> Deref(l.hot_temp)])
    ELSE None

\* first `match *mode`: the temperature controller
temp_config_of(l) ==
    IF Deref(l.mode) \in {"Auto", "Manual"}
    THEN Some([dangerous_temp |-> Deref(l.dangerous_temp),
               hot_temp |-> Deref(l.hot_temp)])
    ELSE None

\* variant: the second check is an `else if`
temp_warnings_of_ElseIf(l) ==
    IF Deref(l.mode) \in {"Auto", "Manual"}
    THEN <<>>
    ELSE IF is_some(l.hot_temp)
         THEN <<Warning("hot_temp", Deref(l.hot_temp))>>
         ELSE IF is_some(l.dangerous_temp)
              THEN <<Warning("dangerous_temp", Deref(l.hot_temp))>>
              ELSE <<>>

temp_warnings_of(l) ==
    IF Deref(l.mode) \in {"Auto", "Manual"}
    THEN <<>>
    ELSE (IF is_some(l.hot_temp)
          THEN <<Warning("hot_temp", Deref(l.hot_temp))>> ELSE <<>>)
         \o
         (IF is_some(l.dangerous_temp)
          THEN <<Warning("dangerous_temp", Deref(l.hot_temp))>> ELSE <<>>)

\* variant: the fan controller is dropped when either setting is 0
fan_config_of_EitherZero(l) ==
    IF Deref(l.mode) = "Auto"
    THEN Some([mode |-> [kind |-> "TargetTemperature", v |-> Deref(l.target_temp)],
               min_fans |-> Deref(l.min_fans)])
    ELSE IF eq_some(l.fan_speed, 0) \/ eq_some(l.min_fans, 0)
         THEN None
         ELSE Some([mode |-> [kind |-> "FixedSpeed",
                              v |-> fan_Speed_new(Deref(l.fan_speed))],
                    min_fans |-> Deref(l.min_fans)])

\* variant: the all-zero rule is applied before the mode is looked at
fan_config_of_ZeroRuleFirst(l) ==
    IF eq_some(l.fan_speed, 0) /\ eq_some(l.min_fans, 0)
    THEN None
    ELSE IF Deref(l.mode) = "Auto"
         THEN Some([mode |-> [kind |-> "TargetTemperature", v |-> Deref(l.target_temp)],
                    min_fans |-> Deref(l.min_fans)])
         ELSE Some([mode |-> [kind |-> "FixedSpeed",
                              v |-> fan_Speed_new(Deref(l.fan_speed))],
                    min_fans |-> Deref(l.min_fans)])

\* second `match *mode`: the fan controller
fan_config_of(l) ==
    IF Deref(l.mode) = "Auto"
    THEN Some([mode |-> [kind |-> "TargetTemperature", v |-> Deref(l.target_temp)],
               min_fans |-> Deref(l.min_fans)])
    ELSE IF eq_some(l.fan_speed, 0) /\ eq_some(l.min_fans, 0)
         THEN None
         ELSE Some([mode |-> [kind |-> "FixedSpeed",
                              v |-> fan_Speed_new(Deref(l.fan_speed))],
                    min_fans |-> Deref(l.min_fans)])

fan_warnings_of(l) ==
    IF Deref(l.mode) = "Auto"
    THEN (IF is_some(l.fan_speed)
          THEN <<Warning("speed", Deref(l.fan_speed))>> ELSE <<>>)
    ELSE (IF is_some(l.target_temp)
          THEN <<Warning("target_temp", Deref(l.fan_speed))>> ELSE <<>>)

\* the returned monitor::Config
monitor_Config(self) ==
    [temp_config |-> temp_config_of(monitor_locals(self)),
     fan_config |-> fan_config_of(monitor_locals(self))]

\* the warn! calls of one invocation, in order
monitor_warnings(self) ==
    temp_warnings_of(monitor_locals(self)) \o fan_warnings_of(monitor_locals(self))

(***************************************************************************)
(* Backend::parse                                                          *)
(***************************************************************************)
Ok == [tag |-> "Ok"]

Err(msg, arg) == [tag |-> "Err", msg |-> msg, arg |-> arg]

Panic == [tag |-> "Panic"]

Pending == [tag |-> "Pending"]

\* variant: the accepted range starts at 0
check_key_FromZero(idx) ==
    LET parsed == parse_usize(idx)
    IN  IF ~IsSome(parsed)
        THEN [tag |-> "Err", msg |-> "is not number", arg |-> idx]
        ELSE IF parsed.v \in 0..HASH_CHAIN_INDEX_MAX
             THEN [tag |-> "Ok"]
             ELSE [tag |-> "Err", msg |-> "is out of range", arg |-> to_string(parsed.v)]

\* body of the loop over hash_chains.keys(): the verdict on one key
check_key(idx) ==
    LET parsed == parse_usize(idx)
    IN  IF ~IsSome(parsed)
        THEN Err("is not number", idx)
        ELSE IF parsed.v \in HASH_CHAIN_INDEX_MIN..HASH_CHAIN_INDEX_MAX
             THEN Ok
             ELSE Err("is out of range", to_string(parsed.v))

\* the orders in which HashMap::keys() may yield the keys of m
KeyOrders(m) ==
    {o \in [1..Cardinality(DOMAIN m) -> DOMAIN m] :
        \A i, j \in DOMAIN o : i # j => o[i] # o[j]}

\* the loop stops at the first key that is rejected (`?`)
RECURSIVE check_keys(_, _)
check_keys(order, i) ==
    IF i > Len(order) THEN Ok
    ELSE IF check_key(order[i]) # Ok THEN check_key(order[i])
    ELSE check_keys(order, i + 1)

\* pools.into_iter().map(client::parse(..).expect(..)).collect()
pool_clients(pools) == [i \in 1..Len(pools) |-> client_parse(pools[i].url, pools[i].user)]

\* variant: the version is compared before the model
parse_outcome_VersionFirst(decoded, order) ==
    IF ~IsSome(decoded)
    THEN [ret |-> Err("decode", ""), backend |-> None]
    ELSE IF decoded.v.format.version # FORMAT_VERSION
    THEN [ret |-> Err("incompatible format version", decoded.v.format.version), backend |-> None]
    ELSE IF decoded.v.format.model # FORMAT_MODEL
    THEN [ret |-> Err("incompatible format model", decoded.v.format.model), backend |-> None]
    ELSE IF IsSome(decoded.v.hash_chains) /\ check_keys(order, 1) # Ok
    THEN [ret |-> check_keys(order, 1), backend |-> None]
    ELSE LET pools == unwrap_or(decoded.v.pools, <<>>)
             clients == pool_clients(pools)
         IN  IF \E i \in 1..Len(clients) : ~IsSome(clients[i])
             THEN [ret |-> Panic, backend |-> None]
             ELSE [ret |-> Ok,
                   backend |-> Some([decoded.v EXCEPT
                                       !.pools = None,
                                       !.clients = [i \in 1..Len(clients) |-> clients[i].v]])]

\* Result of parse for a decoded file, the keys being visited in `order`:
\* the verdict and the Backend it returns (None unless the verdict is Ok).
parse_outcome(decoded, order) ==
    IF ~IsSome(decoded)
    THEN [ret |-> Err("decode", ""), backend |-> None]
    ELSE IF decoded.v.format.model # FORMAT_MODEL
    THEN [ret |-> Err("incompatible format model", decoded.v.format.model), backend |-> None]
    ELSE IF decoded.v.format.version # FORMAT_VERSION
    THEN [ret |-> Err("incompatible format version", decoded.v.format.version), backend |-> None]
    ELSE IF IsSome(decoded.v.hash_chains) /\ check_keys(order, 1) # Ok
    THEN [ret |-> check_keys(order, 1), backend |-> None]
    ELSE LET pools == unwrap_or(decoded.v.pools, <<>>)
             clients == pool_clients(pools)
         IN  IF \E i \in 1..Len(clients) : ~IsSome(clients[i])
             THEN [ret |-> Panic, backend |-> None]
             ELSE [ret |-> Ok,
                   backend |-> Some([decoded.v EXCEPT
                                       !.pools = None,
                                       !.clients = [i \in 1..Len(clients) |-> clients[i].v]])]

parse ==
    /\ pc = "start"
    /\ \E order \in (IF IsSome(file) /\ IsSome(file.v.hash_chains)
                     THEN KeyOrders(file.v.hash_chains.v) ELSE {<<>>}) :
         LET out == parse_outcome(file, order)
         IN  /\ ret' = out.ret
             /\ backend' = out.backend
             /\ pc' = IF out.ret = Ok THEN "loaded"
                      ELSE IF out.ret = Panic THEN "panicked" ELSE "failed"
    /\ UNCHANGED <<file, chain_call, monitor_call, clients_call>>

(***************************************************************************)
(* Calls on the loaded Backend                                             *)
(***************************************************************************)
\* power::Voltage::from_volts(..).expect(..) belongs to another module: it
\* may accept the voltage or reject it, and a rejection aborts the process.
resolve_chain_config ==
    /\ pc = "loaded"
    /\ \E hash_chain_idx \in 0..MaxIdx, accepted \in BOOLEAN :
         /\ chain_call' = Some([idx |-> hash_chain_idx,
                                locals |-> chain_locals(backend.v, hash_chain_idx),
                                ret |-> IF accepted
                                        THEN Some(ResolvedChainConfig(backend.v, hash_chain_idx))
                                        ELSE None])
         /\ pc' = IF accepted THEN "loaded" ELSE "panicked"
    /\ UNCHANGED <<file, ret, backend, monitor_call, clients_call>>

resolve_monitor_config ==
    /\ pc = "loaded"
    /\ monitor_call' = Some([ret |-> monitor_Config(backend.v),
                             warnings |-> monitor_warnings(backend.v)])
    /\ UNCHANGED <<file, pc, ret, backend, chain_call, clients_call>>

\* variant: the list is copied out and kept
clients_drain_Keep(self) == [ret |-> self.clients, self |-> self]

\* self.clients.drain(..).collect()
clients_drain(self) == [ret |-> self.clients, self |-> [self EXCEPT !.clients = <<>>]]

clients ==
    /\ pc = "loaded"
    /\ clients_call.n < MaxClientsCalls
    /\ clients_call' = [n |-> clients_call.n + 1, ret |-> clients_drain(backend.v).ret]
    /\ backend' = Some(clients_drain(backend.v).self)
    /\ UNCHANGED <<file, pc, ret, chain_call, monitor_call>>

Next ==
    \/ parse
    \/ resolve_chain_config
    \/ resolve_monitor_config
    \/ clients

(***************************************************************************)
(* Decoded files                                                           *)
(***************************************************************************)
OptionOf(S) == {None} \cup {Some(x) : x \in S}

SeqsUpTo(S, n) == UNION {[1..k -> S] : k \in 0..n}

MapsUpTo(K, V, n) == UNION {[S -> V] : S \in {T \in SUBSET K : Cardinality(T) <= n}}

GoodFormat == [version |-> FORMAT_VERSION, model |-> FORMAT_MODEL]

Formats == [version : {FORMAT_VERSION, "alpha"}, model : {FORMAT_MODEL, "Wrong Model"}]

Pools == {[url |-> UrlA, user |-> "alice"],
          [url |-> UrlB, user |-> "bob"],
          [url |-> UrlBad, user |-> "carol"]}

LoadKeys == {<<"5">>, <<"1">>, <<"9">>, <<"0">>, <<"1", "0">>, <<"a", "b", "c">>,
             <<"0", "5">>, <<"+", "5">>, <<>>}

ChainKeys == {<<"5">>, <<"0", "5">>, <<"9">>}

NoHashChain == [frequency |-> None, voltage |-> None]

HashChains == [frequency : OptionOf({600}), voltage : OptionOf({85})]

HashChainGlobals ==
    [asic_boost : OptionOf(BOOLEAN),
     overridable : OptionOf([frequency : OptionOf({700, -1}), voltage : OptionOf({90})])]

TempControls ==
    [mode : OptionOf({"Auto", "Manual", "Disable"}),
     target_temp : OptionOf({60}),
     hot_temp : OptionOf({90}),
     dangerous_temp : OptionOf({110})]

FanControls == [speed : OptionOf({0, 50}), min_fans : OptionOf({0, 1})]

\* files that exercise the loader: format, per-chain keys and pools vary
LoadFiles ==
    [format : Formats,
     pools : OptionOf(SeqsUpTo(Pools, MaxPools)),
     clients : {<<>>},
     hash_chain_global : {None},
     hash_chains : OptionOf(MapsUpTo(LoadKeys, {NoHashChain}, MaxKeys)),
     temp_control : {None},
     fan_control : {None}]

\* files that exercise per-chain resolution
ChainFiles ==
    [format : {GoodFormat},
     pools : {None},
     clients : {<<>>},
     hash_chain_global : OptionOf(HashChainGlobals),
     hash_chains : OptionOf(MapsUpTo(ChainKeys, HashChains, MaxKeys)),
     temp_control : {None},
     fan_control : {None}]

\* files that exercise monitor resolution
MonitorFiles ==
    [format : {GoodFormat},
     pools : {None},
     clients : {<<>>},
     hash_chain_global : {None},
     hash_chains : {None},
     temp_control : OptionOf(TempControls),
     fan_control : OptionOf(FanControls)]

InitWith(Files) ==
    /\ file \in OptionOf(Files)
    /\ pc = "start"
    /\ ret = Pending
    /\ backend = None
    /\ chain_call = None
    /\ monitor_call = None
    /\ clients_call = [n |-> 0, ret |-> <<>>]

Init == InitWith(LoadFiles)

InitChain == InitWith(ChainFiles)

InitMonitor == InitWith(MonitorFiles)

Spec == Init /\ [][Next]_vars

SpecChain == InitChain /\ [][Next]_vars

SpecMonitor == InitMonitor /\ [][Next]_vars

(***************************************************************************)
(* Properties of per-chain resolution (SpecChain)                          *)
(***************************************************************************)
\* decimal numeral of n < 20, written out digit by digit
Decimal(n) == IF n < 10 THEN <<DigitChar[n + 1]>> ELSE <<"1", DigitChar[n - 9]>>

\* field of the per-chain entry keyed by the numeral of idx, when supplied
PerUnitField(b, idx, field) ==
    IF /\ IsSome(b.hash_chains)
       /\ Decimal(idx) \in DOMAIN b.hash_chains.v
    THEN b.hash_chains.v[Decimal(idx)][field]
    ELSE None

\* field of the global override, when supplied
GlobalField(b, field) ==
    IF IsSome(b.hash_chain_global) /\ IsSome(b.hash_chain_global.v.overridable)
    THEN b.hash_chain_global.v.overridable.v[field]
    ELSE None

Layered(b, idx, field, default) ==
    IF IsSome(PerUnitField(b, idx, field)) THEN PerUnitField(b, idx, field).v
    ELSE IF IsSome(GlobalField(b, field)) THEN GlobalField(b, field).v
    ELSE default

\* C1: for every chain index, frequency and voltage each resolve to the
\* per-chain entry's field (entry keyed by the decimal string of the index)
\* when supplied, else to the global override's field when supplied, else to
\* the default 650 MHz / 8.8 V.
C1_LayeredResolution ==
    IsSome(chain_call) =>
        /\ Deref(chain_call.v.locals.frequency)
             = Layered(file.v, chain_call.v.idx, "frequency", 650)
        /\ Deref(chain_call.v.locals.voltage)
             = Layered(file.v, chain_call.v.idx, "voltage", 88)

C1_Witness ==
    /\ IsSome(chain_call)
    /\ chain_call.v.idx = 5
    /\ IsSome(PerUnitField(file.v, 5, "frequency"))
    /\ IsSome(GlobalField(file.v, "frequency"))
    /\ ~IsSome(PerUnitField(file.v, 5, "voltage"))
    /\ IsSome(GlobalField(file.v, "voltage"))
    /\ Deref(chain_call.v.locals.frequency) = 600
    /\ Deref(chain_call.v.locals.voltage) = 90

BoostFlagUnset(b) ==
    ~IsSome(b.hash_chain_global) \/ ~IsSome(b.hash_chain_global.v.asic_boost)

\* C7 as stated: with the boost flag unset, midstate_count and the midstate
\* count of every resolved chain configuration are the non-boost value 1.
C7_UnsetIsMinimal ==
    (pc = "loaded" /\ BoostFlagUnset(backend.v)) =>
        /\ midstate_count(backend.v) = 1
        /\ (IsSome(chain_call) /\ IsSome(chain_call.v.ret))
              => chain_call.v.ret.v.midstate_count = 1

\* C7 amended: with the boost flag unset, boost defaults to enabled, so
\* midstate_count and the midstate count of every resolved chain
\* configuration are the boosted value 4.
C7_UnsetIsBoosted ==
    (pc = "loaded" /\ BoostFlagUnset(backend.v)) =>
        /\ midstate_count(backend.v) = 4
        /\ (IsSome(chain_call) /\ IsSome(chain_call.v.ret))
              => chain_call.v.ret.v.midstate_count = 4

C7_Witness ==
    /\ pc = "loaded"
    /\ IsSome(backend.v.hash_chain_global)
    /\ ~IsSome(backend.v.hash_chain_global.v.asic_boost)
    /\ IsSome(chain_call)
    /\ IsSome(chain_call.v.ret)
    /\ chain_call.v.ret.v.midstate_count = 4

(***************************************************************************)
(* Properties of the loader (Spec)                                         *)
(***************************************************************************)
KeysOf(b) == IF IsSome(b.hash_chains) THEN DOMAIN b.hash_chains.v ELSE {}

NonNumeric(k) == ~IsSome(parse_usize(k))

OutOfRange(k) == IsSome(parse_usize(k)) /\ parse_usize(k).v \notin 1..9

FormatMatches(b) == b.format.model = "Antminer S9" /\ b.format.version = "beta"

\* C2: with a matching model and version, parse succeeds only if every
\* per-chain key parses as an integer in 1..9; a rejected table fails with
\* 'is not number' naming a non-numeric key or with 'is out of range' naming
\* a numeric key outside 1..9, and a table whose keys are all in range
\* passes key validation.
C2_KeyValidation ==
    (pc # "start" /\ IsSome(file) /\ FormatMatches(file.v)) =>
        LET keys == KeysOf(file.v)
            bad == {k \in keys : NonNumeric(k) \/ OutOfRange(k)}
        IN  /\ ret = Ok => bad = {}
            /\ bad = {} => ret \in {Ok, Panic}
            /\ bad # {} =>
                 /\ ret.tag = "Err"
                 /\ \/ /\ ret.msg = "is not number"
                       /\ \E k \in bad : NonNumeric(k) /\ ret.arg = k
                    \/ /\ ret.msg = "is out of range"
                       /\ \E k \in bad : OutOfRange(k) /\ ret.arg = Decimal(parse_usize(k).v)
                 /\ (\A k \in bad : NonNumeric(k)) => ret.msg = "is not number"
                 /\ (\A k \in bad : OutOfRange(k)) => ret.msg = "is out of range"

C2_Witness ==
    /\ pc = "failed"
    /\ IsSome(file)
    /\ FormatMatches(file.v)
    /\ KeysOf(file.v) = {<<"5">>, <<"1", "0">>}
    /\ ret.tag = "Err"
    /\ ret.msg = "is out of range"

\* C3: a model other than "Antminer S9" fails with 'incompatible format
\* model' whatever the version and keys are; with the right model a version
\* other than "beta" fails with 'incompatible format version' whatever the
\* keys are; a failing parse returns no configuration.
C3_FormatChecks ==
    (pc # "start" /\ IsSome(file)) =>
        /\ file.v.format.model # "Antminer S9"
             => ret = Err("incompatible format model", file.v.format.model)
        /\ (file.v.format.model = "Antminer S9" /\ file.v.format.version # "beta")
             => ret = Err("incompatible format version", file.v.format.version)
        /\ ret.tag = "Err" => (backend = None /\ pc = "failed")

C3_Witness ==
    /\ pc = "failed"
    /\ IsSome(file)
    /\ file.v.format.model = "Wrong Model"
    /\ file.v.format.version = "alpha"
    /\ <<"a", "b", "c">> \in KeysOf(file.v)
    /\ ret.tag = "Err"
    /\ ret.msg = "incompatible format model"
    /\ backend = None

\* one descriptor per configured pool, in pool order
Descriptors(b) ==
    LET pools == IF IsSome(b.pools) THEN b.pools.v ELSE <<>>
    IN  [i \in 1..Len(pools) |-> client_parse(pools[i].url, pools[i].user).v]

\* C10: after a successful parse the pools section is empty and the client
\* list holds one descriptor per configured pool in pool order; the first
\* clients() returns that list and empties the stored one, every later
\* clients() returns the empty list, whatever resolve_chain_config and
\* resolve_monitor_config calls are interleaved.
C10_ClientsDrainedOnce ==
    (ret = Ok /\ IsSome(backend)) =>
        /\ backend.v.pools = None
        /\ clients_call.n = 0 => backend.v.clients = Descriptors(file.v)
        /\ clients_call.n = 1 =>
             (clients_call.ret = Descriptors(file.v) /\ backend.v.clients = <<>>)
        /\ clients_call.n > 1 =>
             (clients_call.ret = <<>> /\ backend.v.clients = <<>>)

C10_Witness ==
    /\ ret = Ok
    /\ IsSome(file.v.pools)
    /\ Len(file.v.pools.v) = 2
    /\ file.v.pools.v[1] # file.v.pools.v[2]
    /\ clients_call.n = 2
    /\ clients_call.ret = <<>>
    /\ IsSome(chain_call)
    /\ IsSome(monitor_call)

(***************************************************************************)
(* Properties of monitor resolution (SpecMonitor)                          *)
(***************************************************************************)
\* a temp_control / fan_control field as supplied by the file
TempField(b, field) ==
    IF IsSome(b.temp_control) THEN b.temp_control.v[field] ELSE None

FanField(b, field) ==
    IF IsSome(b.fan_control) THEN b.fan_control.v[field] ELSE None

Resolved(o, default) == IF IsSome(o) THEN o.v ELSE default

ResolvedMode(b) == Resolved(TempField(b, "mode"), "Auto")

\* C4: a thermal configuration is returned iff the resolved mode is Auto or
\* Manual, and then carries the resolved hot (else 95) and dangerous (else
\* 105) thresholds; under Disable it is absent whatever thresholds are
\* supplied.
C4_ThermalConfig ==
    IsSome(monitor_call) =>
        LET temp_config == monitor_call.v.ret.temp_config
        IN  /\ IsSome(temp_config) <=> ResolvedMode(file.v) \in {"Auto", "Manual"}
            /\ IsSome(temp_config) =>
                 /\ temp_config.v.hot_temp = Resolved(TempField(file.v, "hot_temp"), 95)
                 /\ temp_config.v.dangerous_temp
                      = Resolved(TempField(file.v, "dangerous_temp"), 105)

C4_Witness ==
    /\ IsSome(monitor_call)
    /\ ResolvedMode(file.v) = "Disable"
    /\ TempField(file.v, "hot_temp") = Some(90)
    /\ TempField(file.v, "dangerous_temp") = Some(110)
    /\ monitor_call.v.ret.temp_config = None

\* C5: under Manual or Disable the fan configuration is absent exactly when
\* fan speed and minimum fan count both resolve to zero, and is otherwise a
\* fixed-speed configuration with the resolved speed (else 100) and the
\* resolved minimum fan count (else 1).
C5_FixedSpeedFan ==
    (IsSome(monitor_call) /\ ResolvedMode(file.v) \in {"Manual", "Disable"}) =>
        LET fan_config == monitor_call.v.ret.fan_config
            speed == Resolved(FanField(file.v, "speed"), 100)
            min_fans == Resolved(FanField(file.v, "min_fans"), 1)
        IN  /\ ~IsSome(fan_config) <=> (speed = 0 /\ min_fans = 0)
            /\ IsSome(fan_config) =>
                 /\ fan_config.v.mode.kind = "FixedSpeed"
                 /\ fan_config.v.mode.v = [speed |-> speed]
                 /\ fan_config.v.min_fans = min_fans

C5_Witness ==
    /\ IsSome(monitor_call)
    /\ ResolvedMode(file.v) = "Manual"
    /\ FanField(file.v, "speed") = Some(0)
    /\ FanField(file.v, "min_fans") = Some(1)
    /\ IsSome(monitor_call.v.ret.fan_config)
    /\ monitor_call.v.ret.fan_config.v.mode = [kind |-> "FixedSpeed", v |-> [speed |-> 0]]

\* C6: under Auto a fan configuration is always returned, in
\* target-temperature mode with the resolved target temperature (else 75)
\* and the resolved minimum fan count, for every supplied speed and minimum
\* fan count, both zero included.
C6_AutoFan ==
    (IsSome(monitor_call) /\ ResolvedMode(file.v) = "Auto") =>
        LET fan_config == monitor_call.v.ret.fan_config
        IN  /\ IsSome(fan_config)
            /\ fan_config.v.mode.kind = "TargetTemperature"
            /\ fan_config.v.mode.v = Resolved(TempField(file.v, "target_temp"), 75)
            /\ fan_config.v.min_fans = Resolved(FanField(file.v, "min_fans"), 1)

C6_Witness ==
    /\ IsSome(monitor_call)
    /\ ResolvedMode(file.v) = "Auto"
    /\ FanField(file.v, "speed") = Some(0)
    /\ FanField(file.v, "min_fans") = Some(0)
    /\ IsSome(monitor_call.v.ret.fan_config)
    /\ monitor_call.v.ret.fan_config.v.mode.kind = "TargetTemperature"

\* the fields that are inert under a resolved mode
InertTemp(mode) ==
    IF mode = "Auto" THEN {}
    ELSE IF mode = "Manual" THEN {"target_temp"}
    ELSE {"target_temp", "hot_temp", "dangerous_temp"}

InertFan(mode) == IF mode = "Auto" THEN {"speed"} ELSE {}

\* b1 and b2 have the same resolved mode and agree on every field that is
\* not inert under it
SameButInert(b1, b2) ==
    /\ ResolvedMode(b1) = ResolvedMode(b2)
    /\ \A f \in {"target_temp", "hot_temp", "dangerous_temp"} \ InertTemp(ResolvedMode(b1)) :
         TempField(b1, f) = TempField(b2, f)
    /\ \A f \in {"speed", "min_fans"} \ InertFan(ResolvedMode(b1)) :
         FanField(b1, f) = FanField(b2, f)

\* C8: two inputs with the same resolved mode that differ only in fields
\* inert under that mode resolve to identical thermal and fan
\* configurations.
C8_InertFieldsDoNotInterfere ==
    IsSome(monitor_call) =>
        \A tc \in OptionOf(TempControls), fc \in OptionOf(FanControls) :
            LET other == [backend.v EXCEPT !.temp_control = tc, !.fan_control = fc]
            IN  SameButInert(backend.v, other)
                    => monitor_Config(other) = monitor_call.v.ret

C8_Witness ==
    /\ IsSome(monitor_call)
    /\ ResolvedMode(file.v) = "Disable"
    /\ TempField(file.v, "hot_temp") = Some(90)
    /\ TempField(file.v, "target_temp") = Some(60)
    /\ \E tc \in OptionOf(TempControls) :
         LET other == [backend.v EXCEPT !.temp_control = tc]
         IN  /\ SameButInert(backend.v, other)
             /\ TempField(other, "hot_temp") = None
             /\ TempField(other, "target_temp") = None
             /\ monitor_Config(other) = monitor_call.v.ret

\* number of supplied fields that are inert under the resolved mode
SuppliedInert(b) ==
    Cardinality({f \in InertTemp(ResolvedMode(b)) : IsSome(TempField(b, f))})
      + Cardinality({f \in InertFan(ResolvedMode(b)) : IsSome(FanField(b, f))})

\* C9: one call of resolve_monitor_config emits as many advisories as there
\* are explicitly supplied fields inert under the resolved mode.
C9_AdvisoryCount ==
    IsSome(monitor_call) => Len(monitor_call.v.warnings) = SuppliedInert(file.v)

C9_Witness ==
    /\ IsSome(monitor_call)
    /\ ResolvedMode(file.v) = "Disable"
    /\ TempField(file.v, "hot_temp") = Some(90)
    /\ TempField(file.v, "dangerous_temp") = None
    /\ TempField(file.v, "target_temp") = None
    /\ Len(monitor_call.v.warnings) = 1

====
